---- MODULE Spec2Model ----
(***************************************************************************)
(* ClinicalTrialDataAgent (question_4_genai_cda/question4_agent.py) and    *)
(* the two scripts that drive it: the __main__ block of question4_agent.py *)
(* and run_assessment_tests of question4_test.py.                          *)
(*                                                                         *)
(* Text is a sequence of one-character strings, so that str.upper(), the   *)
(* `in` operator and Series.str.contains() are computed character by       *)
(* character.  A missing cell (NaN) is the one-element sequence NaN, which *)
(* is no text: its element is not a character.                             *)
(***************************************************************************)
EXTENDS Integers, Sequences, FiniteSets, TLC

VARIABLES
    src,             \* the data source: the file data/adae.csv, or its absence
    astype_keeps_na, \* whether Series.astype(str) keeps NaN (pandas >= 3) or writes "nan" (pandas < 3)
    agent,           \* "none" before construction, "ready" after
    df,              \* self.df
    last,            \* the last call on the agent and what it returned or raised
    memo,            \* one earlier execute_query call, remembered for comparison
    sel,             \* the last run of the filter step of execute_query on a given intent
    script,          \* which script runs: "none", "test" (question4_test.py) or "main" (question4_agent.py)
    pc,              \* the script's position
    out              \* what the script has printed, in order

vars == <<src, astype_keeps_na, agent, df, last, memo, sel, script, pc, out>>

\* ---------------------------------------------------------------- bounds
\* the longest data source, in rows
MaxRows == 2

\* ------------------------------------------------------------------ text
LowerCase ==
    <<"a", "b", "c", "d", "e", "f", "g", "h", "i", "j", "k", "l", "m",
      "n", "o", "p", "q", "r", "s", "t", "u", "v", "w", "x", "y", "z">>
UpperCase ==
    <<"A", "B", "C", "D", "E", "F", "G", "H", "I", "J", "K", "L", "M",
      "N", "O", "P", "Q", "R", "S", "T", "U", "V", "W", "X", "Y", "Z">>

\* str.upper() on one character
UpperChar(c) ==
    IF \E i \in DOMAIN LowerCase : LowerCase[i] = c
    THEN UpperCase[CHOOSE i \in DOMAIN LowerCase : LowerCase[i] = c]
    ELSE c

\* str.upper()
RECURSIVE upper(_)
upper(s) == IF s = <<>> THEN <<>> ELSE <<UpperChar(Head(s))>> \o upper(Tail(s))

\* Python's `sub in s` on str
In(sub, s) ==
    \E i \in 0..(Len(s) - Len(sub)) : \A k \in 1..Len(sub) : s[i + k] = sub[k]

\* re.search(pat, s) is not None, for the patterns written with letters, digits,
\* blanks and the metacharacter "." (any character)
re_search(pat, s) ==
    \E i \in 0..(Len(s) - Len(pat)) :
        \A k \in 1..Len(pat) : pat[k] = "." \/ pat[k] = s[i + k]

\* the missing value
NaN == <<"NaN">>

\* trigger words and filter values of parse_question
SEVERITY == <<"S", "E", "V", "E", "R", "I", "T", "Y">>
INTENSITY == <<"I", "N", "T", "E", "N", "S", "I", "T", "Y">>
MODERATE == <<"M", "O", "D", "E", "R", "A", "T", "E">>
MILD == <<"M", "I", "L", "D">>
SEVERE == <<"S", "E", "V", "E", "R", "E">>
HEADACHE == <<"H", "E", "A", "D", "A", "C", "H", "E">>
NAUSEA == <<"N", "A", "U", "S", "E", "A">>
DIZZINESS == <<"D", "I", "Z", "Z", "I", "N", "E", "S", "S">>
CARDIAC == <<"C", "A", "R", "D", "I", "A", "C">>
SKIN == <<"S", "K", "I", "N">>
NERVOUS == <<"N", "E", "R", "V", "O", "U", "S">>
CARDIAC_DISORDERS ==
    <<"C", "A", "R", "D", "I", "A", "C", " ", "D", "I", "S", "O", "R", "D", "E", "R", "S">>
SKIN_DISORDERS ==
    <<"S", "K", "I", "N", " ", "A", "N", "D", " ", "S", "U", "B", "C", "U", "T", "A", "N", "E",
      "O", "U", "S", " ", "T", "I", "S", "S", "U", "E", " ", "D", "I", "S", "O", "R", "D", "E",
      "R", "S">>
NERVOUS_DISORDERS ==
    <<"N", "E", "R", "V", "O", "U", "S", " ", "S", "Y", "S", "T", "E", "M", " ", "D", "I", "S",
      "O", "R", "D", "E", "R", "S">>
UNKNOWN == <<"U", "N", "K", "N", "O", "W", "N">>
\* questions put to the agent
Q_Moderate ==
    <<"G", "i", "v", "e", " ", "m", "e", " ", "t", "h", "e", " ", "s", "u", "b", "j", "e", "c",
      "t", "s", " ", "w", "h", "o", " ", "h", "a", "d", " ", "A", "d", "v", "e", "r", "s", "e",
      " ", "e", "v", "e", "n", "t", "s", " ", "o", "f", " ", "M", "o", "d", "e", "r", "a", "t",
      "e", " ", "s", "e", "v", "e", "r", "i", "t", "y", ".">>
Q_Headache ==
    <<"W", "h", "i", "c", "h", " ", "s", "u", "b", "j", "e", "c", "t", "s", " ", "e", "x", "p",
      "e", "r", "i", "e", "n", "c", "e", "d", " ", "a", " ", "H", "e", "a", "d", "a", "c", "h",
      "e", "?">>
Q_Cardiac ==
    <<"F", "i", "n", "d", " ", "s", "u", "b", "j", "e", "c", "t", "s", " ", "w", "i", "t", "h",
      " ", "C", "a", "r", "d", "i", "a", "c", " ", "i", "s", "s", "u", "e", "s", ".">>
Q_Diarrhoea ==
    <<"F", "i", "n", "d", " ", "s", "u", "b", "j", "e", "c", "t", "s", " ", "w", "i", "t", "h",
      " ", "D", "i", "a", "r", "r", "h", "o", "e", "a", ".">>
Q_SeverityOnly == <<"W", "h", "a", "t", " ", "s", "e", "v", "e", "r", "i", "t", "y", "?">>
Q_SevereNausea == <<"s", "e", "v", "e", "r", "e", " ", "n", "a", "u", "s", "e", "a">>
Q_MildSevere == <<"S", "e", "v", "e", "r", "e", ",", " ", "n", "o", "t", " ", "m", "i", "l", "d">>
Q_SkinNervous == <<"n", "e", "r", "v", "o", "u", "s", " ", "o", "r", " ", "s", "k", "i", "n">>
Q_Nervous == <<"N", "e", "r", "v", "o", "u", "s", " ", "s", "y", "s", "t", "e", "m">>
Q_Dizzy ==
    <<"d", "i", "z", "z", "i", "n", "e", "s", "s", " ", "i", "n", " ", "c", "a", "r", "d", "i",
      "a", "c", " ", "p", "a", "t", "i", "e", "n", "t", "s">>
Q_Empty == <<>>

\* cell texts of the data source
T_S1 == <<"S", "1">>
T_S2 == <<"S", "2">>
T_S3 == <<"S", "3">>
T_Empty == <<>>
T_NA == <<"N", "A">>
T_SevereHeadache == <<"S", "e", "v", "e", "r", "e", " ", "H", "e", "a", "d", "a", "c", "h", "e">>
T_Unknown == <<"U", "n", "k", "n", "o", "w", "n">>
T_Cardiac == <<"C", "a", "r", "d", "i", "a", "c", " ", "d", "i", "s", "o", "r", "d", "e", "r", "s">>

\* filter values
V_headache == <<"h", "e", "a", "d", "a", "c", "h", "e">>
V_HeadDotChe == <<"H", "E", "A", "D", ".", "C", "H", "E">>
V_NAN == <<"N", "A", "N">>

\* --------------------------------------------------------------- schema
\* the keys of ADAE_SCHEMA
ADAE_SCHEMA == {"AESEV", "AETERM", "AESOC"}

\* the columns of the fallback table
FallbackColumns == {"USUBJID", "AESEV", "AETERM", "AESOC"}

\* ----------------------------------------------------------- data source
\* the texts pandas.read_csv reads as NaN (its default na_values)
NaTexts ==
    { <<>>, <<"N", "A">>, <<"N", "/", "A">>, <<"n", "/", "a">>, <<"N", "a", "N">>,
      <<"n", "a", "n">>, <<"N", "U", "L", "L">>, <<"n", "u", "l", "l">>,
      <<"N", "o", "n", "e">>, <<"<", "N", "A", ">">>, <<"#", "N", "A">>,
      <<"#", "N", "/", "A">> }

\* pandas.read_csv on one cell
ReadCell(text) == IF text \in NaTexts THEN NaN ELSE text

FileNotFoundError == [columns |-> {}, rows |-> <<>>, raised |-> "FileNotFoundError"]

\* pd.read_csv(data_path)
read_csv(source) ==
    IF ~source.exists
    THEN FileNotFoundError
    ELSE [columns |-> source.columns,
          rows    |-> [i \in 1..Len(source.rows) |->
                          [c \in source.columns |-> ReadCell(source.rows[i][c])]],
          raised  |-> "none"]

\* Series.astype(str) on one value
astype_str(v, keeps_na) ==
    IF v = NaN THEN (IF keeps_na THEN NaN ELSE <<"n", "a", "n">>) ELSE v

\* Series.str.upper() on one value
str_upper(v) == IF v = NaN THEN NaN ELSE upper(v)

\* faulty variant: the values are not upper-cased
Normalise_NoUpper(v, keeps_na) == astype_str(v, keeps_na)

\* self.df[col].astype(str).str.upper() on one value
Normalise(v, keeps_na) == str_upper(astype_str(v, keeps_na))

\* faulty variant: the fallback table lacks the organ-class column
EmptyTable_NoOrganClass == [columns |-> {"USUBJID", "AESEV", "AETERM"}, rows |-> <<>>]

\* pd.DataFrame(columns=["USUBJID", "AESEV", "AETERM", "AESOC"])
EmptyTable == [columns |-> FallbackColumns, rows |-> <<>>]

\* ClinicalTrialDataAgent.__init__: the value of self.df
ClinicalTrialDataAgent(source, keeps_na) ==
    LET t == read_csv(source)
    IN  IF t.raised = "FileNotFoundError"
        THEN EmptyTable
        ELSE [columns |-> t.columns,
              rows    |-> [i \in 1..Len(t.rows) |->
                              [c \in t.columns |->
                                  IF c \in {"AESEV", "AETERM", "AESOC"}
                                  THEN Normalise(t.rows[i][c], keeps_na)
                                  ELSE t.rows[i][c]]]]

\* -------------------------------------------------------- parse_question
\* next((v for v in values if v in q), default)
NextIn(values, q, default) ==
    IF \E i \in DOMAIN values : In(values[i], q)
    THEN values[CHOOSE i \in DOMAIN values :
                    In(values[i], q) /\ \A j \in 1..(i - 1) : ~In(values[j], q)]
    ELSE default

Intent(col, val) == [target_column |-> col, filter_value |-> val]

\* faulty variant: the severity list in the opposite order
SeverityValues_Reversed == <<SEVERE, MODERATE, MILD>>

\* the priority lists of the severity and term categories
SeverityValues == <<MILD, MODERATE, SEVERE>>
TermValues == <<HEADACHE, NAUSEA, DIZZINESS>>

\* the organ-class branch
OrganClassValue(q_upper) ==
    IF In(CARDIAC, q_upper) THEN CARDIAC_DISORDERS
    ELSE IF In(SKIN, q_upper) THEN SKIN_DISORDERS
    ELSE NERVOUS_DISORDERS

\* faulty variants: the default intent names a column outside the schema; its value is empty
UnknownIntent_OtherColumn == Intent("TERM", UNKNOWN)
UnknownIntent_EmptyValue == Intent("AETERM", <<>>)

\* the final else branch
UnknownIntent == Intent("AETERM", UNKNOWN)

parse_question(question) ==
    LET q_upper == upper(question)
        any(words) == \E w \in words : In(w, q_upper)
    IN  IF any({SEVERITY, INTENSITY, MODERATE, MILD, SEVERE})
        THEN Intent("AESEV", NextIn(SeverityValues, q_upper, MODERATE))
        ELSE IF any({HEADACHE, NAUSEA, DIZZINESS})
        THEN Intent("AETERM", NextIn(TermValues, q_upper, HEADACHE))
        ELSE IF any({CARDIAC, SKIN, NERVOUS})
        THEN Intent("AESOC", OrganClassValue(q_upper))
        ELSE UnknownIntent

\* --------------------------------------------------------- execute_query
\* Series.str.contains(val, na=False) on one value
str_contains(v, val) == IF v = NaN THEN FALSE ELSE re_search(val, v)

\* faulty variant: repeated values are kept
unique_KeepsAll(s) == s

\* Series.unique(): the distinct values in order of first appearance
RECURSIVE unique(_)
unique(s) ==
    IF s = <<>>
    THEN <<>>
    ELSE LET u == unique(SubSeq(s, 1, Len(s) - 1))
             x == s[Len(s)]
         IN  IF \E i \in DOMAIN u : u[i] = x THEN u ELSE Append(u, x)

KeyError(key) == [raised |-> "KeyError", key |-> key]

\* self.df[col].str.contains(val, na=False): the boolean mask, row by row
ContainsMask(d, col, val) == [i \in 1..Len(d.rows) |-> str_contains(d.rows[i][col], val)]

\* self.df[mask]: the rows whose entry of the boolean mask is True, in order
RECURSIVE BooleanIndex(_, _)
BooleanIndex(rows, mask) ==
    IF rows = <<>>
    THEN <<>>
    ELSE (IF Head(mask) THEN <<Head(rows)>> ELSE <<>>)
             \o BooleanIndex(Tail(rows), Tail(mask))

\* execute_query from the parsed intent on: self.df afterwards, and what is
\* returned or raised
ExecuteIntent(d, parsed) ==
    LET col == parsed.target_column
        val == parsed.filter_value
    IN  IF col \notin d.columns
        THEN [df |-> d, ret |-> KeyError(col)]
        ELSE LET filtered_df == BooleanIndex(d.rows, ContainsMask(d, col, val))
             IN  IF "USUBJID" \notin d.columns
                 THEN [df |-> d, ret |-> KeyError("USUBJID")]
                 ELSE LET unique_ids ==
                              unique([i \in 1..Len(filtered_df) |-> filtered_df[i]["USUBJID"]])
                      IN  [df  |-> d,
                           ret |-> [raised        |-> "none",
                                    intent        |-> parsed,
                                    subject_count |-> Len(unique_ids),
                                    matching_ids  |-> unique_ids]]

\* the questions put to the agent
Questions ==
    { Q_Moderate, Q_Headache, Q_Cardiac, Q_Diarrhoea, Q_SeverityOnly, Q_SevereNausea,
      Q_MildSevere, Q_SkinNervous, Q_Nervous, Q_Dizzy, Q_Empty }

\* parse_question on every question put to the agent, computed once
Parsed == [q \in Questions |-> parse_question(q)]

\* faulty variant: the filtered table is stored back into self.df
execute_query_StoresFiltered(d, user_question) ==
    LET e == ExecuteIntent(d, Parsed[user_question])
        mask == ContainsMask(d, Parsed[user_question].target_column,
                             Parsed[user_question].filter_value)
    IN  IF e.ret.raised = "none"
        THEN [df |-> [columns |-> d.columns, rows |-> BooleanIndex(d.rows, mask)], ret |-> e.ret]
        ELSE e

\* ClinicalTrialDataAgent.execute_query
execute_query(d, user_question) == ExecuteIntent(d, Parsed[user_question])

\* ---------------------------------------------------------------- inputs
Row(id, sev, term, soc) == [USUBJID |-> id, AESEV |-> sev, AETERM |-> term, AESOC |-> soc]

RowPool ==
    { Row(T_S1, MODERATE, HEADACHE, NERVOUS_DISORDERS),
      Row(T_S2, SEVERE, T_SevereHeadache, T_Empty),
      Row(T_S3, T_NA, T_Unknown, T_Cardiac) }

RowSeqs == UNION {[1..n -> RowPool] : n \in 0..MaxRows}

\* the file holds all four columns, or lacks one of them
ColumnSets == {FallbackColumns} \cup {FallbackColumns \ {c} : c \in FallbackColumns}

Sources ==
    {[exists |-> FALSE, columns |-> {}, rows |-> <<>>]}
    \cup {[exists  |-> TRUE,
           columns |-> cs,
           rows    |-> [i \in 1..Len(rs) |-> [c \in cs |-> rs[i][c]]]] :
             cs \in ColumnSets, rs \in RowSeqs}

\* the intents handed to the filter step
FilterValues == {<<>>, HEADACHE, V_headache, V_HeadDotChe, V_NAN, MODERATE}

\* the question lists of the two scripts
test_queries_test == <<Q_Moderate, Q_Headache, Q_Diarrhoea>>
test_queries_main == <<Q_Moderate, Q_Headache, Q_Cardiac>>

NoTable == [columns |-> {}, rows |-> <<>>]
NoCall == [op |-> "none"]

\* --------------------------------------------------------------- actions
InitCommon ==
    /\ src \in Sources
    /\ astype_keeps_na \in BOOLEAN
    /\ agent = "none"
    /\ df = NoTable
    /\ last = NoCall
    /\ memo = NoCall
    /\ sel = NoCall
    /\ out = <<>>

Init == InitCommon /\ script = "none" /\ pc = [at |-> "idle"]

\* agent = ClinicalTrialDataAgent()
NewAgent ==
    /\ script = "none"
    /\ agent = "none"
    /\ agent' = "ready"
    /\ df' = ClinicalTrialDataAgent(src, astype_keeps_na)
    /\ UNCHANGED <<src, astype_keeps_na, last, memo, sel, script, pc, out>>

\* agent.parse_question(q)
CallParseQuestion(q) ==
    /\ script = "none"
    /\ agent = "ready"
    /\ last' = [op |-> "parse_question", question |-> q, ret |-> Parsed[q]]
    /\ UNCHANGED <<src, astype_keeps_na, agent, df, memo, sel, script, pc, out>>

\* agent.execute_query(q); memo keeps this call or the one it held
CallExecuteQuery(q) ==
    /\ script = "none"
    /\ agent = "ready"
    /\ LET e == execute_query(df, q)
           call == [op |-> "execute_query", question |-> q, ret |-> e.ret]
       IN  /\ df' = e.df
           /\ last' = call
           /\ memo' \in {memo, call}
    /\ UNCHANGED <<src, astype_keeps_na, agent, sel, script, pc, out>>

Next ==
    \/ NewAgent
    \/ \E q \in Questions : CallParseQuestion(q)
    \/ \E q \in Questions : CallExecuteQuery(q)

Spec == Init /\ [][Next]_vars

\* the filter step of execute_query (from the parsed intent on) on a given intent
FilterStep(col, val) ==
    /\ script = "none"
    /\ agent = "ready"
    /\ LET e == ExecuteIntent(df, Intent(col, val))
       IN  /\ df' = e.df
           /\ sel' = [op     |-> "filter",
                      intent |-> Intent(col, val),
                      mask   |-> IF col \in df.columns THEN ContainsMask(df, col, val) ELSE <<>>,
                      ret    |-> e.ret]
    /\ UNCHANGED <<src, astype_keeps_na, agent, last, memo, script, pc, out>>

NextFilter ==
    \/ NewAgent
    \/ \E col \in ADAE_SCHEMA, val \in FilterValues : FilterStep(col, val)

FilterSpec == Init /\ [][NextFilter]_vars

\* ------------------------------------------------------------ the scripts
InitScript == InitCommon /\ script \in {"test", "main"} /\ pc = [at |-> "start"]

Loop(i) == [at |-> "loop", i |-> i]

\* question4_test.py: the header, then agent = ClinicalTrialDataAgent()
TestStart ==
    /\ script = "test"
    /\ pc = [at |-> "start"]
    /\ out' = Append(out, [ev |-> "header"])
    /\ agent' = "ready"
    /\ df' = ClinicalTrialDataAgent(src, astype_keeps_na)
    /\ pc' = Loop(1)
    /\ UNCHANGED <<src, astype_keeps_na, last, memo, sel, script>>

\* question4_test.py: one turn of the loop, inside the try; an exception leaves
\* the loop for the except clause, which prints it
TestQuery ==
    /\ script = "test"
    /\ pc.at = "loop"
    /\ pc.i <= Len(test_queries_test)
    /\ LET q == test_queries_test[pc.i]
           e == execute_query(df, q)
       IN  /\ df' = e.df
           /\ last' = [op |-> "execute_query", question |-> q, ret |-> e.ret]
           /\ IF e.ret.raised = "none"
              THEN /\ out' = out \o <<[ev |-> "query", i |-> pc.i],
                                      [ev |-> "result", i |-> pc.i, ret |-> e.ret]>>
                   /\ pc' = Loop(pc.i + 1)
              ELSE /\ out' = out \o <<[ev |-> "query", i |-> pc.i],
                                      [ev |-> "fatal", error |-> e.ret]>>
                   /\ pc' = [at |-> "banner"]
    /\ UNCHANGED <<src, astype_keeps_na, agent, memo, sel, script>>

\* question4_test.py: the completion banner, after the loop or the except clause
TestBanner ==
    /\ script = "test"
    /\ \/ pc.at = "banner"
       \/ pc.at = "loop" /\ pc.i > Len(test_queries_test)
    /\ out' = Append(out, [ev |-> "completed"])
    /\ pc' = [at |-> "done"]
    /\ UNCHANGED <<src, astype_keeps_na, agent, df, last, memo, sel, script>>

\* question4_agent.py __main__: the header, then agent = ClinicalTrialDataAgent()
MainStart ==
    /\ script = "main"
    /\ pc = [at |-> "start"]
    /\ out' = Append(out, [ev |-> "header"])
    /\ agent' = "ready"
    /\ df' = ClinicalTrialDataAgent(src, astype_keeps_na)
    /\ pc' = Loop(1)
    /\ UNCHANGED <<src, astype_keeps_na, last, memo, sel, script>>

\* question4_agent.py __main__: one turn of the loop; no handler, so an
\* exception ends the process
MainQuery ==
    /\ script = "main"
    /\ pc.at = "loop"
    /\ pc.i <= Len(test_queries_main)
    /\ LET q == test_queries_main[pc.i]
           e == execute_query(df, q)
       IN  /\ df' = e.df
           /\ last' = [op |-> "execute_query", question |-> q, ret |-> e.ret]
           /\ IF e.ret.raised = "none"
              THEN /\ out' = out \o <<[ev |-> "query", i |-> pc.i],
                                      [ev |-> "result", i |-> pc.i, ret |-> e.ret]>>
                   /\ pc' = Loop(pc.i + 1)
              ELSE /\ out' = out
                   /\ pc' = [at |-> "crashed"]
    /\ UNCHANGED <<src, astype_keeps_na, agent, memo, sel, script>>

\* question4_agent.py __main__: the completion banner, after the loop
MainBanner ==
    /\ script = "main"
    /\ pc.at = "loop"
    /\ pc.i > Len(test_queries_main)
    /\ out' = Append(out, [ev |-> "completed"])
    /\ pc' = [at |-> "done"]
    /\ UNCHANGED <<src, astype_keeps_na, agent, df, last, memo, sel, script>>

NextScript ==
    \/ TestStart
    \/ TestQuery
    \/ TestBanner
    \/ MainStart
    \/ MainQuery
    \/ MainBanner

ScriptSpec == InitScript /\ [][NextScript]_vars

\* ------------------------------------------------------------ properties
\* the upper-cased text of each question, computed once
QUpper == [q \in Questions |-> upper(q)]

\* the last call was execute_query and it returned
Returned == last.op = "execute_query" /\ last.ret.raised = "none"

\* the table holds the four columns of a dataset
WellFormed(d) == {"USUBJID", "AESEV", "AETERM", "AESOC"} \subseteq d.columns

\* the rows of the loaded dataset whose value in col holds val as a substring
MatchingRows(d, col, val) ==
    {i \in 1..Len(d.rows) : d.rows[i][col] # NaN /\ In(val, d.rows[i][col])}

\* C1: schema closure.  Every intent parse_question returns, and the intent of
\* every result execute_query returns, has a target_column that is a key of
\* ADAE_SCHEMA: AESEV, AETERM or AESOC.
C1_SchemaClosure ==
    /\ ADAE_SCHEMA = {"AESEV", "AETERM", "AESOC"}
    /\ last.op = "parse_question" => last.ret.target_column \in {"AESEV", "AETERM", "AESOC"}
    /\ Returned => last.ret.intent.target_column \in {"AESEV", "AETERM", "AESOC"}

\* a question without any keyword has been parsed
C1_Witness ==
    /\ last.op = "parse_question"
    /\ last.question = Q_Diarrhoea
    /\ last.ret.target_column = "AETERM"

C5_EmptyDataset ==
    /\ agent = "ready" /\ ~src.exists =>
           /\ df.columns = {"USUBJID", "AESEV", "AETERM", "AESOC"}
           /\ df.rows = <<>>
    /\ last.op = "execute_query" /\ WellFormed(df) /\ df.rows = <<>> =>
           /\ last.ret.raised = "none"
           /\ last.ret.subject_count = 0
           /\ last.ret.matching_ids = <<>>

\* the file is absent and an organ-class question has been answered
C5_Witness ==
    /\ ~src.exists
    /\ Returned
    /\ last.question = Q_Cardiac
    /\ last.ret.subject_count = 0

\* C6: read-only queries and idempotence.  No step after construction changes
\* self.df, and a call of execute_query returns what any earlier call with the
\* same question returned.
C6_ReadOnlyIdempotent ==
    /\ [][agent = "ready" => df' = df]_vars
    /\ [](memo.op = "execute_query" /\ last.op = "execute_query"
            /\ memo.question = last.question => memo.ret = last.ret)

\* a question answered earlier has been answered again, with subjects found
C6_Witness ==
    /\ memo.op = "execute_query"
    /\ Returned
    /\ memo.question = last.question
    /\ last.ret.subject_count > 0

\* the words that select a category, and whether one occurs in the question
SeverityWords == {SEVERITY, INTENSITY, MODERATE, MILD, SEVERE}
TermWords == {HEADACHE, NAUSEA, DIZZINESS}
OrganClassWords == {CARDIAC, SKIN, NERVOUS}
Mentions(q, words) == \E w \in words : In(w, QUpper[q])
NoKeyword(q) == ~Mentions(q, SeverityWords \cup TermWords \cup OrganClassWords)

\* the intent of the last call, when it shows one
ShowsIntent == last.op = "parse_question" \/ Returned
LastIntent == IF last.op = "parse_question" THEN last.ret ELSE last.ret.intent

\* C7: unknown sentinel.  A question holding none of the category keywords is
\* parsed to {AETERM, "UNKNOWN"}, and execute_query returns subject_count = 0
\* and matching_ids = [] on every dataset none of whose AETERM values
\* contains "UNKNOWN".
C7_UnknownSentinel ==
    /\ ShowsIntent /\ NoKeyword(last.question) =>
           LastIntent = [target_column |-> "AETERM", filter_value |-> UNKNOWN]
    /\ /\ last.op = "execute_query"
       /\ NoKeyword(last.question)
       /\ WellFormed(df)
       /\ \A i \in 1..Len(df.rows) :
              df.rows[i]["AETERM"] = NaN \/ ~In(UNKNOWN, df.rows[i]["AETERM"])
       => /\ last.ret.raised = "none"
          /\ last.ret.subject_count = 0
          /\ last.ret.matching_ids = <<>>

\* the question about Diarrhoea has been answered on a dataset with terms
C7_Witness ==
    /\ Returned
    /\ last.question = Q_Diarrhoea
    /\ \E i \in 1..Len(df.rows) : df.rows[i]["AETERM"] # NaN
    /\ last.ret.intent = [target_column |-> "AETERM", filter_value |-> UNKNOWN]
    /\ last.ret.subject_count = 0

\* the first entry of a priority list that occurs in the question is val
FirstOf(q, list, val) ==
    \E i \in DOMAIN list :
        /\ In(list[i], QUpper[q])
        /\ \A j \in 1..(i - 1) : ~In(list[j], QUpper[q])
        /\ val = list[i]

\* the canonical phrase of an organ-class keyword
Canonical(w) ==
    IF w = CARDIAC THEN CARDIAC_DISORDERS
    ELSE IF w = SKIN THEN SKIN_DISORDERS
    ELSE NERVOUS_DISORDERS

\* the term and organ-class categories, which C8 as stated and as amended share
C8_TermAndOrganClass(q, intent) ==
    /\ ~Mentions(q, SeverityWords) /\ Mentions(q, TermWords) =>
           /\ intent.target_column = "AETERM"
           /\ FirstOf(q, <<HEADACHE, NAUSEA, DIZZINESS>>, intent.filter_value)
    /\ ~Mentions(q, SeverityWords) /\ ~Mentions(q, TermWords) /\ Mentions(q, OrganClassWords) =>
           /\ intent.target_column = "AESOC"
           /\ \E w \in OrganClassWords :
                  /\ FirstOf(q, <<CARDIAC, SKIN, NERVOUS>>, w)
                  /\ intent.filter_value = Canonical(w)

\* C8 as stated: the first matching category wins, in the order AESEV, AETERM,
\* AESOC, and filter_value is the first keyword of its priority list that
\* occurs in the upper-cased question (the canonical phrase for AESOC), so it
\* always stands for a keyword present in the question.
C8_AsStated ==
    ShowsIntent =>
        /\ Mentions(last.question, SeverityWords) =>
               /\ LastIntent.target_column = "AESEV"
               /\ FirstOf(last.question, <<MILD, MODERATE, SEVERE>>, LastIntent.filter_value)
        /\ C8_TermAndOrganClass(last.question, LastIntent)

\* C8 as amended: as stated, except that a question that selects the severity
\* category through SEVERITY or INTENSITY alone, with none of MILD, MODERATE,
\* SEVERE in it, gets the filter_value MODERATE.
C8_RuleBasedResolution ==
    ShowsIntent =>
        /\ Mentions(last.question, SeverityWords) =>
               /\ LastIntent.target_column = "AESEV"
               /\ IF Mentions(last.question, {MILD, MODERATE, SEVERE})
                  THEN FirstOf(last.question, <<MILD, MODERATE, SEVERE>>,
                               LastIntent.filter_value)
                  ELSE LastIntent.filter_value = MODERATE
        /\ C8_TermAndOrganClass(last.question, LastIntent)

\* a question about severity that names no severity has been parsed
C8_Witness ==
    /\ last.op = "parse_question"
    /\ last.question = Q_SeverityOnly
    /\ ~In(MODERATE, QUpper[Q_SeverityOnly])
    /\ last.ret = [target_column |-> "AESEV", filter_value |-> MODERATE]

\* C9: dataset issues are absorbed at load time.  Whatever the data source
\* (absent, complete, or lacking one column), the agent is constructed and no
\* execute_query call on it raises.
C9_DatasetIssuesAbsorbed ==
    last.op = "execute_query" => last.ret.raised = "none"

\* a filter value of upper-case letters and blanks only
PlainChars == {UpperCase[i] : i \in DOMAIN UpperCase} \cup {" "}
PlainUpper(val) == \A k \in DOMAIN val : val[k] \in PlainChars

\* s contains val as a substring, letter case ignored
ContainsIgnoringCase(s, val) ==
    \E i \in 0..(Len(s) - Len(val)) :
        \A k \in 1..Len(val) : UpperChar(s[i + k]) = UpperChar(val[k])

\* the text of row i of the data source in column col, and whether it is missing
SourceText(i, col) == src.rows[i][col]
SourceNull(i, col) == SourceText(i, col) \in NaTexts

Filtered == sel.op = "filter" /\ sel.intent.target_column \in df.columns

\* the matching rule on the rows with a value, for the filter values in scope
MatchingRuleFor(inScope) ==
    Filtered /\ inScope =>
        \A i \in 1..Len(df.rows) :
            ~SourceNull(i, sel.intent.target_column) =>
                (sel.mask[i] <=>
                     ContainsIgnoringCase(SourceText(i, sel.intent.target_column),
                                          sel.intent.filter_value))

C4_NullRowsNeverMatch ==
    Filtered =>
        \A i \in 1..Len(df.rows) :
            /\ SourceNull(i, sel.intent.target_column) => ~sel.mask[i]
            /\ sel.intent.filter_value = <<>> =>
                   (sel.mask[i] <=> ~SourceNull(i, sel.intent.target_column))

\* C10: batch continuation.  When the run of a script has ended, a failed
\* question has been reported as an error, every question of the list has been
\* put to the agent and reported, whether or not an earlier one failed, and the
\* completion banner has been printed.
Ended == pc.at \in {"done", "crashed"}
Reported(i) == \E k \in DOMAIN out : out[k].ev = "query" /\ out[k].i = i
ScriptQueries == IF script = "test" THEN test_queries_test ELSE test_queries_main
C10_BatchContinuation ==
    Ended =>
        /\ last.op = "execute_query" /\ last.ret.raised # "none" =>
               \E k \in DOMAIN out : out[k].ev = "fatal"
        /\ \A i \in DOMAIN ScriptQueries : Reported(i)
        /\ \E k \in DOMAIN out : out[k].ev = "completed"
====
